---- MODULE Spec2Model ----
(***************************************************************************)
(* Model of main.py: transfer of text-markup annotations and their reply   *)
(* notes from an old PDF to a new revision of it.                          *)
(*                                                                         *)
(* Text is a sequence of characters; a character is a small integer:       *)
(*   0 = whitespace, 1 = "a", 2 = "b", 3 = "A".                            *)
(* A page of the new document is the sequence of its words as returned by  *)
(* page.get_text("words"); a word is a non-empty sequence of non-space     *)
(* characters.  The float fuzzy ratio is the rational <<num, den>>.        *)
(***************************************************************************)
EXTENDS Integers, Sequences, FiniteSets, TLC

VARIABLES new_doc, old_annots, fuzzy_ratio, fuzzy_allowance,
          pc, i,
          transferred_count, transferred_fuzzy_count, failed_count,
          unsupported_count, failed_annotations, new_annot_map,
          output_annots, save_calls, output_file,
          located, outcomes, visited2, best_match

vars == <<new_doc, old_annots, fuzzy_ratio, fuzzy_allowance, pc, i,
          transferred_count, transferred_fuzzy_count, failed_count,
          unsupported_count, failed_annotations, new_annot_map,
          output_annots, save_calls, output_file,
          located, outcomes, visited2, best_match>>

-----------------------------------------------------------------------------
(* Program constants                                                       *)

LOCAL_PAGE_WINDOW == 5

MAX_PAGE_DISTANCE == 5

FUZZY_MAX_PAGE_DISTANCE == 5

markup_types == {"Highlight", "Underline", "Squiggly"}

SPACE == 0

NoPage == -1

-----------------------------------------------------------------------------
(* Bounds of the model and the input sets                                  *)

MaxPages == 2

MaxAnnots == 2

\* the longest page of PageTextsFuzzy, in words
MaxPageWords == 3

\* pages of the new document used by the transfer runs: "a b", "a ab"
PageTexts == { << <<1>>, <<2>> >>, << <<1>>, <<1, 2>> >> }

\* pages used when the fuzzy matcher is explored on its own:
\* additionally a blank page, "ab", "bb a b"
PageTextsFuzzy == PageTexts \cup
                  { <<>>, << <<1, 2>> >>, << <<2, 2>>, <<1>>, <<2>> >> }

\* pages used when the tiered search is explored on its own:
\* additionally "A b", "ba b"
PageTextsFind == PageTextsFuzzy \cup { << <<3>>, <<2>> >>, << <<2, 1>>, <<2>> >> }

\* raw text under an annotation: " ", "a  b" (two spaces)
RawTexts == { <<0>>, <<1, 0, 0, 2>> }

\* additionally "ab", " a", "b b "
RawTextsFind == RawTexts \cup { <<1, 2>>, <<0, 1>>, <<2, 0, 2, 0>> }

\* 0-based page numbers of the old document that carry annotations
OldPageNumbers == {0, 6}

OldPageNumbersFind == {0, 1, 5, 6, 7, 8}

\* 0.3 (the default of the command line) and 0.5
Ratios == { <<3, 10>>, <<1, 2>> }

\* 5 is the default of the command line
Allowances == {0, 1, 5}

RunRatios == { <<3, 10>> }

RunAllowances == {0, 1}

-----------------------------------------------------------------------------
(* Helpers                                                                 *)

Max(a, b) == IF a > b THEN a ELSE b

Min(a, b) == IF a < b THEN a ELSE b

Abs(a) == IF a < 0 THEN -a ELSE a

\* range(a, b) as a list
Range(a, b) == [k \in 1..Max(0, b - a) |-> a + k - 1]

\* int(x) of the rational a / b (b > 0): truncation toward zero
IntTrunc(a, b) == IF a >= 0 THEN a \div b ELSE -((-a) \div b)

RECURSIVE SetToSortedSeq(_)
SetToSortedSeq(S) ==
    IF S = {} THEN <<>>
    ELSE LET m == CHOOSE x \in S : \A y \in S : x <= y
         IN <<m>> \o SetToSortedSeq(S \ {m})

\* str.split(): the maximal runs of non-whitespace characters
RECURSIVE SplitFrom(_, _, _)
SplitFrom(s, k, cur) ==
    IF k > Len(s) THEN (IF cur = <<>> THEN <<>> ELSE <<cur>>)
    ELSE IF s[k] = SPACE
         THEN (IF cur = <<>> THEN <<>> ELSE <<cur>>) \o SplitFrom(s, k + 1, <<>>)
         ELSE SplitFrom(s, k + 1, Append(cur, s[k]))

Split(s) == SplitFrom(s, 1, <<>>)

\* " ".join(words)
RECURSIVE Join(_)
Join(ws) ==
    IF ws = <<>> THEN <<>>
    ELSE IF Len(ws) = 1 THEN ws[1]
    ELSE ws[1] \o <<SPACE>> \o Join(Tail(ws))

\* " ".join(text.split())
Normalize(s) == Join(Split(s))

\* one row of the edit-distance table: the distances of s[1..a] to every
\* prefix of t, from the row of s[1..a-1]
RECURSIVE LevRow(_, _, _, _)
LevRow(prev, c, t, row) ==
    LET b == Len(row)
    IN IF b > Len(t) THEN row
       ELSE LevRow(prev, c, t,
                   Append(row, Min(Min(prev[b + 1] + 1, row[b] + 1),
                                   prev[b] + (IF c = t[b] THEN 0 ELSE 1))))

RECURSIVE LevRows(_, _, _, _)
LevRows(s, t, a, prev) ==
    IF a > Len(s) THEN prev[Len(t) + 1]
    ELSE LevRows(s, t, a + 1, LevRow(prev, s[a], t, <<a>>))

\* Levenshtein.distance(s, t): insertions, deletions and substitutions cost 1
Levenshtein(s, t) == LevRows(s, t, 1, [b \in 1..(Len(t) + 1) |-> b - 1])

\* case folding of the exact search ("A" -> "a")
Fold(c) == IF c = 3 THEN 1 ELSE c

\* page.search_for(needle, quads=True): one quad per occurrence of the needle
\* in the page's text, ignoring case; a quad is named by the offset of the hit
SearchFor(page, needle) ==
    LET pt == Join(page)
        hits == { k \in 1..(Len(pt) - Len(needle) + 1) :
                    \A j \in 1..Len(needle) : Fold(pt[k + j - 1]) = Fold(needle[j]) }
    IN SetToSortedSeq(hits)

-----------------------------------------------------------------------------
(* find_best_fuzzy_match_in_pages                                          *)

\* best_match = {'page': None, 'quads': [], 'distance': float('inf')}
NoBestMatch == [page |-> NoPage, quads |-> <<>>, distance |-> 0, inf |-> TRUE]

\* the result (None, None)
NoneNone == [page |-> NoPage, quads |-> <<>>]

\* distance < best_match['distance'], with ties kept by the later window
DistanceLess_OrEqual(distance, best) == best.inf \/ distance <= best.distance

\* distance < best_match['distance']
DistanceLess(distance, best) == best.inf \/ distance < best.distance

\* int(len(text_to_find) * threshold_ratio) + base_allowance + 1
AllowedDistance_OffByOne(text_to_find, threshold_ratio, base_allowance) ==
    IntTrunc(Len(text_to_find) * threshold_ratio[1], threshold_ratio[2])
        + base_allowance + 1

\* allowed_distance = int(len(text_to_find) * threshold_ratio) + base_allowance
AllowedDistance(text_to_find, threshold_ratio, base_allowance) ==
    IntTrunc(Len(text_to_find) * threshold_ratio[1], threshold_ratio[2])
        + base_allowance

\* best_match['distance'] <= allowed_distance
WithinAllowed(best, allowed_distance) ==
    ~best.inf /\ best.distance <= allowed_distance

\* candidate_text of the window of n_words words starting at word w (1-based)
CandidateText(page_words, w, n_words) ==
    Join(SubSeq(page_words, w, w + n_words - 1))

\* the sliding window over one page: for i in range(len(page_words) - n_words + 1)
RECURSIVE ScanWindows(_, _, _, _, _, _)
ScanWindows(page_words, page_idx, text_to_find, n_words, w, best) ==
    IF w > Len(page_words) - n_words + 1 THEN best
    ELSE LET distance == Levenshtein(text_to_find,
                                     CandidateText(page_words, w, n_words))
             next == IF DistanceLess(distance, best)
                     THEN [page |-> page_idx,
                           quads |-> [q \in 1..n_words |-> w + q - 1],
                           distance |-> distance, inf |-> FALSE]
                     ELSE best
         IN ScanWindows(page_words, page_idx, text_to_find, n_words, w + 1, next)

\* for page_idx in page_indices: ... (pages with fewer than n_words are skipped)
RECURSIVE ScanPages(_, _, _, _, _, _)
ScanPages(doc, text_to_find, n_words, page_indices, k, best) ==
    IF k > Len(page_indices) THEN best
    ELSE LET page_idx == page_indices[k]
             page_words == doc[page_idx + 1]
             next == IF Len(page_words) < n_words THEN best
                     ELSE ScanWindows(page_words, page_idx, text_to_find,
                                      n_words, 1, best)
         IN ScanPages(doc, text_to_find, n_words, page_indices, k + 1, next)

find_best_fuzzy_match_in_pages(doc, text_to_find, threshold_ratio, base_allowance, page_indices) ==
    LET n_words == Len(Split(text_to_find))
        allowed_distance == AllowedDistance(text_to_find, threshold_ratio,
                                            base_allowance)
        best == ScanPages(doc, text_to_find, n_words, page_indices, 1, NoBestMatch)
    IN IF n_words = 0 THEN NoneNone
       ELSE IF WithinAllowed(best, allowed_distance)
            THEN [page |-> best.page, quads |-> best.quads]
            ELSE NoneNone

-----------------------------------------------------------------------------
(* find_text_occurrence                                                    *)

\* the local window kept one page too narrow
LocalPageIndices_Narrow(doc_pages, old_page_number) ==
    Range(Max(0, old_page_number - (LOCAL_PAGE_WINDOW - 1)),
          Min(doc_pages, old_page_number + (LOCAL_PAGE_WINDOW - 1) + 1))

\* local_page_indices = list(range(start_page_idx, end_page_idx))
LocalPageIndices(doc_pages, old_page_number) ==
    Range(Max(0, old_page_number - LOCAL_PAGE_WINDOW),
          Min(doc_pages, old_page_number + LOCAL_PAGE_WINDOW + 1))

\* all_page_indices = list(range(doc_pages))
AllPageIndices(doc_pages) == Range(0, doc_pages)

\* the exact-search loop returning the last page with a hit instead of the first
RECURSIVE ExactSearch_Last(_, _, _, _)
ExactSearch_Last(doc, search_text, page_indices, k) ==
    IF k > Len(page_indices) THEN NoneNone
    ELSE LET rest == ExactSearch_Last(doc, search_text, page_indices, k + 1)
             quads == SearchFor(doc[page_indices[k] + 1], search_text)
         IN IF rest.page # NoPage THEN rest
            ELSE IF quads # <<>> THEN [page |-> page_indices[k], quads |-> quads]
            ELSE NoneNone

\* for page_idx in page_indices: quads = page.search_for(...); if quads: return
RECURSIVE ExactSearchFrom(_, _, _, _)
ExactSearchFrom(doc, search_text, page_indices, k) ==
    IF k > Len(page_indices) THEN NoneNone
    ELSE LET quads == SearchFor(doc[page_indices[k] + 1], search_text)
         IN IF quads # <<>> THEN [page |-> page_indices[k], quads |-> quads]
            ELSE ExactSearchFrom(doc, search_text, page_indices, k + 1)

ExactSearch(doc, search_text, page_indices, k) ==
    ExactSearchFrom(doc, search_text, page_indices, k)

\* the result of a search: page, quads, match type, and the return statement
\* (tier) that produced it: 0 empty text, 1..4 the four searches, 5 the last line
Found(r, match_type, tier) ==
    [page |-> r.page, quads |-> r.quads, match_type |-> match_type, tier |-> tier]

find_text_occurrence(doc, text, fuzzy_ratio_, fuzzy_allowance_, old_page_number) ==
    LET search_text == Normalize(text)
        doc_pages == Len(doc)
        local_page_indices == LocalPageIndices(doc_pages, old_page_number)
        all_page_indices == AllPageIndices(doc_pages)
        e1 == ExactSearch(doc, search_text, local_page_indices, 1)
        e2 == ExactSearch(doc, search_text, all_page_indices, 1)
        f3 == find_best_fuzzy_match_in_pages(doc, search_text, fuzzy_ratio_,
                                             fuzzy_allowance_, local_page_indices)
        f4 == find_best_fuzzy_match_in_pages(doc, search_text, fuzzy_ratio_,
                                             fuzzy_allowance_, all_page_indices)
    IN IF search_text = <<>> THEN Found(NoneNone, "none", 0)
       ELSE IF e1.page # NoPage THEN Found(e1, "exact", 1)
       ELSE IF e2.page # NoPage THEN Found(e2, "exact", 2)
       ELSE IF f3.page # NoPage /\ f3.quads # <<>> THEN Found(f3, "fuzzy", 3)
       ELSE IF f4.page # NoPage /\ f4.quads # <<>> THEN Found(f4, "fuzzy", 4)
       ELSE Found(NoneNone, "none", 5)

\* calls of find_best_fuzzy_match_in_pages made before the return of that tier
FuzzyCalls(tier) == IF tier = 3 THEN 1 ELSE IF tier \in {4, 5} THEN 2 ELSE 0

\* no search has been made
NotLocated == [page |-> NoPage, quads |-> <<>>, match_type |-> "none", tier |-> -1]

-----------------------------------------------------------------------------
(* The inputs of a run                                                     *)

\* the new documents: 1..MaxPages pages
Docs(pages) == UNION { [1..n -> pages] : n \in 1..MaxPages }

\* the annotations a page of the old document may carry; irt_xref = 0: no reply
AnnotTemplates(n) ==
    [type : markup_types, page : OldPageNumbers, text : RawTexts, irt_xref : {0}]
    \cup [type : {"Text"}, page : OldPageNumbers, text : {<<>>}, irt_xref : 0..n]
    \cup [type : {"Ink"}, page : OldPageNumbers, text : {<<>>}, irt_xref : {0}]

\* the annotations of the old document in the order the two passes read them
\* (page by page), each with its own xref
OldAnnots(n) ==
    { [k \in 1..n |-> [type |-> t[k].type, page |-> t[k].page, text |-> t[k].text,
                       xref |-> k, irt_xref |-> t[k].irt_xref]] :
        t \in { u \in [1..n -> AnnotTemplates(n)] :
                  \A k \in 1..(n - 1) : u[k].page <= u[k + 1].page } }

EmptyMap == [x \in {} |-> 0]

Counters0 ==
    /\ transferred_count = 0
    /\ transferred_fuzzy_count = 0
    /\ failed_count = 0
    /\ unsupported_count = 0
    /\ failed_annotations = <<>>
    /\ new_annot_map = EmptyMap
    /\ output_annots = <<>>
    /\ save_calls = 0
    /\ output_file = FALSE
    /\ located = NotLocated
    /\ outcomes = <<>>
    /\ visited2 = <<>>
    /\ best_match = NoneNone
    /\ i = 1

Init ==
    /\ new_doc \in Docs(PageTexts)
    /\ old_annots \in UNION { OldAnnots(n) : n \in 0..MaxAnnots }
    /\ fuzzy_ratio \in RunRatios
    /\ fuzzy_allowance \in RunAllowances
    /\ pc = "start"
    /\ Counters0

-----------------------------------------------------------------------------
(* transfer_annotations                                                    *)

inputs == <<new_doc, old_annots, fuzzy_ratio, fuzzy_allowance>>

counters == <<transferred_count, transferred_fuzzy_count, failed_count,
              unsupported_count, failed_annotations, new_annot_map, output_annots>>

\* old_doc = fitz.open(old_pdf_path); new_doc = fitz.open(new_pdf_path)
OpenOk ==
    /\ pc = "start"
    /\ pc' = "pass1"
    /\ i' = 1
    /\ UNCHANGED <<inputs, counters, save_calls, output_file, located, outcomes,
                   visited2, best_match>>

\* except Exception as e: print(...); return
OpenFails ==
    /\ pc = "start"
    /\ pc' = "aborted"
    /\ UNCHANGED <<inputs, counters, i, save_calls, output_file, located, outcomes,
                   visited2, best_match>>

\* page_distance > MAX_PAGE_DISTANCE written as >=
TooFar_Inclusive(page_distance) == page_distance >= MAX_PAGE_DISTANCE

\* if page_distance > MAX_PAGE_DISTANCE
TooFar(page_distance) == page_distance > MAX_PAGE_DISTANCE

\* if match_type == "fuzzy" and page_distance > FUZZY_MAX_PAGE_DISTANCE
TooFarFuzzy(match_type, page_distance) ==
    match_type = "fuzzy" /\ page_distance > FUZZY_MAX_PAGE_DISTANCE

\* the failure of a rejected match counted but not listed
RecordFailure_RejectedUnlisted(failed, old_page_number, text, reason) ==
    IF reason = "too far" THEN failed
    ELSE Append(failed, [page |-> old_page_number + 1, text |-> text,
                         reason |-> reason])

\* failed_annotations.append((old_page_number + 1, target_text or reason))
RecordFailure(failed, old_page_number, text, reason) ==
    Append(failed, [page |-> old_page_number + 1, text |-> text, reason |-> reason])

\* the map written for exact matches only
MapStore_ExactOnly(map, xref, new_annot) ==
    IF new_annot.match_type # "exact" THEN map
    ELSE [x \in DOMAIN map \cup {xref} |-> IF x = xref THEN new_annot ELSE map[x]]

\* new_annot_map[annot.xref] = new_annot
MapStore(map, xref, new_annot) ==
    [x \in DOMAIN map \cup {xref} |-> IF x = xref THEN new_annot ELSE map[x]]

\* new_page.add_highlight_annot(quads) / add_underline_annot / add_squiggly_annot
NewMarkup(annot, m) ==
    [type |-> annot.type, page |-> m.page, quads |-> m.quads,
     match_type |-> m.match_type, src_xref |-> annot.xref]

\* one iteration of the loop of pass 1 (one annotation of the old document)
Pass1Step ==
    /\ pc = "pass1"
    /\ i <= Len(old_annots)
    /\ LET annot == old_annots[i]
           old_page_number == annot.page
           target_text == Normalize(annot.text)
           m == find_text_occurrence(new_doc, target_text, fuzzy_ratio,
                                     fuzzy_allowance, old_page_number)
           page_distance == Abs(m.page - old_page_number)
           new_annot == NewMarkup(annot, m)
       IN IF annot.type \notin markup_types
          THEN /\ unsupported_count' = unsupported_count + 1
               /\ located' = NotLocated
               /\ outcomes' = Append(outcomes, "unsupported")
               /\ UNCHANGED <<transferred_count, transferred_fuzzy_count,
                              failed_count, failed_annotations, new_annot_map,
                              output_annots>>
          ELSE IF target_text = <<>>
          THEN /\ failed_annotations' = RecordFailure(failed_annotations,
                                            old_page_number, <<>>, "empty")
               /\ failed_count' = failed_count + 1
               /\ located' = NotLocated
               /\ outcomes' = Append(outcomes, "empty")
               /\ UNCHANGED <<transferred_count, transferred_fuzzy_count,
                              unsupported_count, new_annot_map, output_annots>>
          ELSE IF m.match_type = "none"
          THEN /\ failed_annotations' = RecordFailure(failed_annotations,
                                            old_page_number, target_text, "not found")
               /\ failed_count' = failed_count + 1
               /\ located' = m
               /\ outcomes' = Append(outcomes, "not found")
               /\ UNCHANGED <<transferred_count, transferred_fuzzy_count,
                              unsupported_count, new_annot_map, output_annots>>
          ELSE IF TooFar(page_distance) \/ TooFarFuzzy(m.match_type, page_distance)
          THEN /\ failed_annotations' = RecordFailure(failed_annotations,
                                            old_page_number, target_text, "too far")
               /\ failed_count' = failed_count + 1
               /\ located' = m
               /\ outcomes' = Append(outcomes, "too far")
               /\ UNCHANGED <<transferred_count, transferred_fuzzy_count,
                              unsupported_count, new_annot_map, output_annots>>
          ELSE /\ output_annots' = Append(output_annots, new_annot)
               /\ transferred_count' =
                      transferred_count + (IF m.match_type = "exact" THEN 1 ELSE 0)
               /\ transferred_fuzzy_count' =
                      transferred_fuzzy_count + (IF m.match_type = "fuzzy" THEN 1 ELSE 0)
               /\ new_annot_map' = MapStore(new_annot_map, annot.xref, new_annot)
               /\ located' = m
               /\ outcomes' = Append(outcomes, m.match_type)
               /\ UNCHANGED <<failed_count, unsupported_count, failed_annotations>>
    /\ i' = i + 1
    /\ UNCHANGED <<inputs, pc, save_calls, output_file, visited2, best_match>>

\* pass 1 has read every page of old_doc: pass 2 starts
Pass1End ==
    /\ pc = "pass1"
    /\ i > Len(old_annots)
    /\ pc' = "pass2"
    /\ i' = 1
    /\ UNCHANGED <<inputs, counters, save_calls, output_file, located, outcomes,
                   visited2, best_match>>

\* the new note placed on the page the reply had in the old document
ReplyNote_OldPage(parent_annot, annot) ==
    [type |-> "Text", page |-> annot.page, quads |-> <<>>,
     match_type |-> "reply", src_xref |-> annot.xref]

\* new_page = parent_annot.page; new_note = new_page.add_text_annot(point, content)
ReplyNote(parent_annot, annot) ==
    [type |-> "Text", page |-> parent_annot.page, quads |-> <<>>,
     match_type |-> "reply", src_xref |-> annot.xref]

\* one iteration of the loop of pass 2
Pass2Step ==
    /\ pc = "pass2"
    /\ i <= Len(old_annots)
    /\ LET annot == old_annots[i]
       IN IF annot.type = "Text"
          THEN IF annot.irt_xref \in DOMAIN new_annot_map
               THEN /\ output_annots' =
                           Append(output_annots,
                                  ReplyNote(new_annot_map[annot.irt_xref], annot))
                    /\ transferred_count' = transferred_count + 1
                    /\ UNCHANGED unsupported_count
               ELSE /\ unsupported_count' = unsupported_count + 1
                    /\ UNCHANGED <<transferred_count, output_annots>>
          ELSE UNCHANGED <<transferred_count, unsupported_count, output_annots>>
    /\ visited2' = Append(visited2, i)
    /\ i' = i + 1
    /\ UNCHANGED <<inputs, pc, transferred_fuzzy_count, failed_count,
                   failed_annotations, new_annot_map, save_calls, output_file,
                   located, outcomes, best_match>>

Pass2End ==
    /\ pc = "pass2"
    /\ i > Len(old_annots)
    /\ pc' = "save"
    /\ UNCHANGED <<inputs, counters, i, save_calls, output_file, located, outcomes,
                   visited2, best_match>>

\* the save issued from inside the loop of pass 2
SaveReady_InLoop == pc \in {"pass2", "save"}

\* the final save follows the two loops
SaveReady == pc = "save"

\* output_doc.save(output_pdf_path, ...): it writes the file or raises
Save ==
    /\ SaveReady
    /\ save_calls' = save_calls + 1
    /\ \E written \in BOOLEAN : output_file' = written
    /\ pc' = "done"
    /\ UNCHANGED <<inputs, counters, i, located, outcomes, visited2, best_match>>

Next == OpenOk \/ OpenFails \/ Pass1Step \/ Pass1End \/ Pass2Step \/ Pass2End \/ Save

Spec == Init /\ [][Next]_vars

-----------------------------------------------------------------------------
(* The search functions on their own                                       *)

\* one markup annotation on page p of the old document with raw text t
OneAnnot(p, t) ==
    << [type |-> "Highlight", page |-> p, text |-> t, xref |-> 1, irt_xref |-> 0] >>

InitLocate ==
    /\ new_doc \in Docs(PageTextsFind)
    /\ old_annots \in { OneAnnot(p, t) : p \in OldPageNumbersFind, t \in RawTextsFind }
    /\ fuzzy_ratio \in Ratios
    /\ fuzzy_allowance \in Allowances
    /\ pc = "locate"
    /\ Counters0

\* new_page, quads, match_type = find_text_occurrence(output_doc, target_text, ...)
Locate ==
    /\ pc = "locate"
    /\ located' = find_text_occurrence(new_doc, old_annots[1].text, fuzzy_ratio,
                                       fuzzy_allowance, old_annots[1].page)
    /\ pc' = "located"
    /\ UNCHANGED <<inputs, counters, i, save_calls, output_file, outcomes,
                   visited2, best_match>>

SpecLocate == InitLocate /\ [][Locate]_vars

\* the lists of page indices a caller may pass: any pages, in any order
PageIndexLists(doc_pages) ==
    { l \in UNION { [1..n -> 0..(doc_pages - 1)] : n \in 0..doc_pages } :
        \A a, b \in DOMAIN l : a # b => l[a] # l[b] }

InitFuzzy ==
    /\ new_doc \in Docs(PageTextsFuzzy)
    /\ old_annots \in { OneAnnot(0, t) : t \in RawTextsFind }
    /\ fuzzy_ratio \in Ratios
    /\ fuzzy_allowance \in Allowances
    /\ pc = "fuzzy"
    /\ Counters0

\* page, quads = find_best_fuzzy_match_in_pages(doc, text, ratio, allowance, indices)
BestMatch ==
    /\ pc = "fuzzy"
    /\ \E page_indices \in PageIndexLists(Len(new_doc)) :
          LET r == find_best_fuzzy_match_in_pages(new_doc, old_annots[1].text,
                       fuzzy_ratio, fuzzy_allowance, page_indices)
          IN best_match' = [page |-> r.page, quads |-> r.quads,
                            page_indices |-> page_indices]
    /\ pc' = "matched"
    /\ UNCHANGED <<inputs, counters, i, save_calls, output_file, located, outcomes,
                   visited2>>

SpecFuzzy == InitFuzzy /\ [][BestMatch]_vars

-----------------------------------------------------------------------------
(* Properties of find_best_fuzzy_match_in_pages (under SpecFuzzy)          *)

\* the phrase handed to the matcher and its number of words
FzText == old_annots[1].text

FzWords == Len(Split(FzText))

\* every window of FzWords words of every candidate page that has that many
\* words: <<k, w>> is the window starting at word w of the k-th listed page
FzWindows ==
    { kw \in (1..Len(best_match.page_indices)) \X (1..MaxPageWords) :
        LET page_words == new_doc[best_match.page_indices[kw[1]] + 1]
        IN Len(page_words) >= FzWords /\ kw[2] <= Len(page_words) - FzWords + 1 }

FzDistance(kw) ==
    Levenshtein(FzText,
                Join(SubSeq(new_doc[best_match.page_indices[kw[1]] + 1],
                            kw[2], kw[2] + FzWords - 1)))

\* the edit distance of every window
FzDistances == [kw \in FzWindows |-> FzDistance(kw)]

\* kw stands before other in the order of the scan
FzBefore(kw, other) ==
    kw[1] < other[1] \/ (kw[1] = other[1] /\ kw[2] <= other[2])

\* the windows of minimum distance that no earlier window equals (at most one)
FzFirstBest(dist) ==
    { kw \in DOMAIN dist :
        \A other \in DOMAIN dist :
            /\ dist[kw] <= dist[other]
            /\ dist[kw] = dist[other] => FzBefore(kw, other) }

\* floor(len(phrase) * thresholdRatio) + baseAllowance
FzAllowance == ((Len(FzText) * fuzzy_ratio[1]) \div fuzzy_ratio[2]) + fuzzy_allowance

FzReturned == best_match.page # NoPage

\* C9: find_best_fuzzy_match_in_pages returns the first-found window of minimum
\* edit distance over all n-word windows of the candidate pages, as a page and
\* exactly n quads, if and only if that minimum is within
\* floor(len(phrase) * ratio) + allowance; it returns none when n = 0, when no
\* candidate page has n words, or when the minimum exceeds the allowance.
C9_BestWindow ==
    pc = "matched" =>
        \A dist \in {FzDistances} : \A first \in {FzFirstBest(dist)} :
           IF FzWords >= 1 /\ \E kw \in first : dist[kw] <= FzAllowance
           THEN /\ Cardinality(first) = 1
                /\ \A kw \in first :
                      /\ best_match.page = best_match.page_indices[kw[1]]
                      /\ Len(best_match.quads) = FzWords
                      /\ best_match.quads = [q \in 1..FzWords |-> kw[2] + q - 1]
           ELSE ~FzReturned /\ best_match.quads = <<>>

\* a match was returned although a window of a page listed later, and lower
\* in the document, is as close
C9_Witness ==
    /\ pc = "matched"
    /\ FzReturned
    /\ \E dist \in {FzDistances} :
          \E kw \in FzFirstBest(dist) : \E other \in DOMAIN dist :
             /\ other[1] > kw[1]
             /\ dist[other] = dist[kw]
             /\ best_match.page_indices[other[1]] < best_match.page_indices[kw[1]]

-----------------------------------------------------------------------------
(* Properties of find_text_occurrence (under SpecLocate)                   *)

LcAnchor == old_annots[1].page

LcPhrase == Normalize(old_annots[1].text)

\* the pages of the document that contain the phrase exactly
LcExactPages ==
    { p \in 0..(Len(new_doc) - 1) : SearchFor(new_doc[p + 1], LcPhrase) # <<>> }

\* the pages of [anchor - 5, anchor + 5] that the document has
LcWindow ==
    { p \in 0..(Len(new_doc) - 1) :
        LcAnchor - LOCAL_PAGE_WINDOW <= p /\ p <= LcAnchor + LOCAL_PAGE_WINDOW }

\* C1: a non-empty phrase found exactly on a page of the local window is
\* returned as "exact" by tier 1, on the lowest window page that has it, without
\* a call of the fuzzy matcher; a phrase found exactly on any page of the
\* document is returned as "exact", never as "fuzzy".
C1_ExactFirst ==
    (pc = "located" /\ LcPhrase # <<>>) =>
        /\ (LcExactPages \cap LcWindow # {} =>
               /\ located.match_type = "exact"
               /\ located.tier = 1
               /\ located.page \in LcExactPages \cap LcWindow
               /\ \A p \in LcExactPages \cap LcWindow : located.page <= p
               /\ located.quads = SearchFor(new_doc[located.page + 1], LcPhrase)
               /\ FuzzyCalls(located.tier) = 0)
        /\ (LcExactPages # {} =>
               /\ located.match_type = "exact"
               /\ FuzzyCalls(located.tier) = 0)

\* tier 1 answered with a window page although an earlier page, outside the
\* window, holds the phrase too
C1_Witness ==
    /\ pc = "located"
    /\ LcPhrase # <<>>
    /\ located.tier = 1
    /\ located.match_type = "exact"
    /\ \E p \in LcExactPages \ LcWindow : p < located.page

-----------------------------------------------------------------------------
(* Properties of transfer_annotations (under Spec)                         *)

\* pass 1 has just handled an annotation: Last, with the outcome LastOutcome
JustVisited == pc = "pass1" /\ i > 1 /\ Len(outcomes) = i - 1

Last == old_annots[i - 1]

LastOutcome == outcomes[i - 1]

LastPhrase == Normalize(Last.text)

\* pass 1 has just searched the new document for the text of a markup
JustSearched == JustVisited /\ Last.type \in markup_types /\ LastPhrase # <<>>

\* the pages of the new document that contain the phrase exactly
ExactPages(phrase) ==
    { p \in 0..(Len(new_doc) - 1) : SearchFor(new_doc[p + 1], phrase) # <<>> }

\* the pages of the local window of an old page number
WindowPages(old_page_number) ==
    { p \in 0..(Len(new_doc) - 1) :
        old_page_number - LOCAL_PAGE_WINDOW <= p
        /\ p <= old_page_number + LOCAL_PAGE_WINDOW }

\* the smallest edit distance of the phrase to a window of as many words on
\* one of the pages is within floor(len(phrase) * ratio) + allowance
FuzzyWindowOn(phrase, pages) ==
    LET n == Len(Split(phrase))
    IN \E p \in pages : \E w \in 1..(Len(new_doc[p + 1]) - n + 1) :
          Levenshtein(phrase, Join(SubSeq(new_doc[p + 1], w, w + n - 1)))
              <= ((Len(phrase) * fuzzy_ratio[1]) \div fuzzy_ratio[2]) + fuzzy_allowance

AllPages == 0..(Len(new_doc) - 1)

\* the annotations created in the output document for the old annotation xref
CreatedFor(xref) ==
    { j \in DOMAIN output_annots : output_annots[j].src_xref = xref }

\* the last failure record is the one of Last
LastFailureListed(reason) ==
    /\ failed_annotations # <<>>
    /\ failed_annotations[Len(failed_annotations)] =
          [page |-> Last.page + 1,
           text |-> (IF reason = "empty" THEN <<>> ELSE LastPhrase),
           reason |-> reason]

\* C2 as stated: a phrase that exact search finds on no page of the target
\* document is located as "none" and recorded as a "text not found" failure.
C2_AbsentIsNone ==
    (JustSearched /\ ExactPages(LastPhrase) = {}) =>
        /\ located.match_type = "none"
        /\ LastOutcome = "not found"
        /\ CreatedFor(Last.xref) = {}

\* C2 amended: a phrase that exact search finds on no page, and that no window
\* of as many words on any page matches within the allowed edit distance, is
\* located as "none"; pass 1 records it as a "text not found" failure and
\* creates no annotation for it.
C2_AbsentAndUnlikeIsNone ==
    (JustSearched /\ ExactPages(LastPhrase) = {}
        /\ ~FuzzyWindowOn(LastPhrase, AllPages)) =>
        /\ located.match_type = "none"
        /\ located.page = NoPage
        /\ LastOutcome = "not found"
        /\ LastFailureListed("not found")
        /\ CreatedFor(Last.xref) = {}
        /\ Last.xref \notin DOMAIN new_annot_map

\* a phrase one edit away from every page, with no allowance for it, was not found
C2_Witness ==
    /\ JustSearched
    /\ ExactPages(LastPhrase) = {}
    /\ ~FuzzyWindowOn(LastPhrase, AllPages)
    /\ LastOutcome = "not found"
    /\ failed_count >= 1

LastDistance == Abs(located.page - Last.page)

\* C3: pass 1 creates the new annotation if and only if the match kind is not
\* "none", the page distance is at most MAX_PAGE_DISTANCE and, for a fuzzy match,
\* at most FUZZY_MAX_PAGE_DISTANCE; a match at exactly the limit is accepted
\* and one beyond it is rejected and counted as a failure.
C3_AcceptIffNear ==
    JustSearched =>
        LET accepted == /\ located.match_type # "none"
                        /\ LastDistance <= MAX_PAGE_DISTANCE
                        /\ (located.match_type = "fuzzy" =>
                                LastDistance <= FUZZY_MAX_PAGE_DISTANCE)
        IN /\ accepted <=> (Cardinality(CreatedFor(Last.xref)) = 1)
           /\ accepted <=> LastOutcome \in {"exact", "fuzzy"}
           /\ accepted =>
                 \A j \in CreatedFor(Last.xref) :
                    /\ output_annots[j].page = located.page
                    /\ output_annots[j].type = Last.type
                    /\ output_annots[j].match_type = located.match_type
           /\ ~accepted => /\ CreatedFor(Last.xref) = {}
                           /\ LastOutcome \in {"not found", "too far"}
                           /\ failed_count >= 1
           /\ (~accepted /\ located.match_type # "none") =>
                 /\ LastOutcome = "too far"
                 /\ LastFailureListed("too far")

\* a match at exactly MAX_PAGE_DISTANCE pages was accepted
C3_Witness ==
    /\ JustSearched
    /\ located.match_type = "fuzzy"
    /\ LastDistance = MAX_PAGE_DISTANCE
    /\ Cardinality(CreatedFor(Last.xref)) = 1

\* the old annotations pass 1 has transferred so far
TransferredXrefs ==
    { old_annots[k].xref : k \in { j \in 1..Len(outcomes) :
                                     outcomes[j] \in {"exact", "fuzzy"} } }

\* the markup annotations created so far in the output document
MarkupsCreated ==
    { j \in DOMAIN output_annots : output_annots[j].type \in markup_types }

C4_MapIsTransferred ==
    /\ DOMAIN new_annot_map = TransferredXrefs
    /\ DOMAIN new_annot_map = { output_annots[j].src_xref : j \in MarkupsCreated }
    /\ Cardinality(DOMAIN new_annot_map) = Cardinality(MarkupsCreated)
    /\ \A x \in DOMAIN new_annot_map :
          \E j \in MarkupsCreated : new_annot_map[x] = output_annots[j]
    /\ \A k \in 1..Len(outcomes) :
          outcomes[k] \in {"unsupported", "empty", "not found", "too far"} =>
              old_annots[k].xref \notin DOMAIN new_annot_map
    /\ (pc \in {"pass2", "save", "done"} \/ visited2 # <<>>) =>
          Len(outcomes) = Len(old_annots)

C4_WrittenInPass1Only ==
    /\ new_annot_map' # new_annot_map => (pc = "pass1" /\ pc' = "pass1")
    /\ output_annots' # output_annots /\ pc = "pass2" =>
          new_annot_map' = new_annot_map

\* C4: the keys of new_annot_map are exactly the identifiers of the markup
\* annotations transferred so far (exact or fuzzy), one entry each; a failed,
\* rejected or unsupported annotation has no entry; the map changes in pass 1
\* only, and pass 2 starts after pass 1 has visited every annotation.
C4_TransferMap == []C4_MapIsTransferred /\ [][C4_WrittenInPass1Only]_vars

\* pass 2 runs with a map that holds a fuzzy transfer and misses a failure
C4_Witness ==
    /\ pc = "pass2"
    /\ Len(old_annots) >= 2
    /\ \E x \in DOMAIN new_annot_map : new_annot_map[x].match_type = "fuzzy"
    /\ \E k \in 1..Len(outcomes) :
          outcomes[k] = "too far" /\ old_annots[k].xref \notin DOMAIN new_annot_map

\* the replies pass 2 has handled so far
RepliesVisited ==
    { k \in 1..Len(visited2) : old_annots[visited2[k]].type = "Text" }

FailureOutcomes == {"empty", "not found", "too far"}

\* the annotations pass 1 has visited that it counted as failures
FailedVisited == { k \in 1..Len(outcomes) : outcomes[k] \in FailureOutcomes }

\* the k-th failure in the order of the visits
RECURSIVE FailuresIn(_)
FailuresIn(n) ==
    IF n = 0 THEN <<>>
    ELSE IF outcomes[n] \in FailureOutcomes
         THEN Append(FailuresIn(n - 1), n)
         ELSE FailuresIn(n - 1)

\* C6: a markup whose text is empty, is found in no tier or is rejected for its
\* distance adds one to failed_count and one record (1-based source page, text
\* or reason) to failed_annotations, creates no annotation and no map entry,
\* and the passes go on: failed_count = len(failed_annotations) always, and
\* each pass visits every annotation once, in order.
C6_FailuresCounted ==
    /\ failed_count = Len(failed_annotations)
    /\ failed_count = Cardinality(FailedVisited)
    /\ LET f == FailuresIn(Len(outcomes))
       IN /\ Len(f) = Len(failed_annotations)
          /\ \A n \in 1..Len(f) :
                /\ failed_annotations[n].page = old_annots[f[n]].page + 1
                /\ failed_annotations[n].reason = outcomes[f[n]]
                /\ failed_annotations[n].text = Normalize(old_annots[f[n]].text)
    /\ \A k \in FailedVisited :
          /\ old_annots[k].type \in markup_types
          /\ CreatedFor(old_annots[k].xref) = {}
          /\ old_annots[k].xref \notin DOMAIN new_annot_map
    /\ \A k \in 1..Len(outcomes) :
          (old_annots[k].type \in markup_types /\ Normalize(old_annots[k].text) = <<>>)
              => outcomes[k] = "empty"
    /\ JustSearched =>
          ((located.match_type = "none" \/ LastDistance > MAX_PAGE_DISTANCE)
              => LastOutcome \in FailureOutcomes)
    /\ pc = "pass1" => Len(outcomes) = i - 1
    /\ pc = "pass2" => (Len(outcomes) = Len(old_annots) /\ Len(visited2) = i - 1)
    /\ pc \in {"save", "done"} =>
          (Len(outcomes) = Len(old_annots) /\ Len(visited2) = Len(old_annots))
    /\ \A k \in 1..Len(visited2) : visited2[k] = k

\* after a failure pass 1 went on and transferred the next markup, and pass 2
\* and the save followed
C6_Witness ==
    /\ pc = "done"
    /\ Len(outcomes) >= 2
    /\ outcomes[1] \in FailureOutcomes
    /\ outcomes[2] \in {"exact", "fuzzy"}
    /\ failed_count = 1
    /\ Len(failed_annotations) = 1

\* the annotations of a type the script does not handle
OtherTypes ==
    { k \in 1..Len(old_annots) : old_annots[k].type \notin markup_types \cup {"Text"} }

\* the replies whose parent was not transferred, or that reply to nothing
OrphanReplies ==
    { k \in 1..Len(old_annots) :
        old_annots[k].type = "Text" /\ old_annots[k].irt_xref \notin TransferredXrefs }

\* C7: at the end of a run unsupported_count is the number of annotations of
\* another type plus the number of replies without a transferred parent, each
\* counted once; every annotation adds to exactly one of the four counters.
C7_UnsupportedOnce ==
    pc = "done" =>
        /\ unsupported_count = Cardinality(OtherTypes) + Cardinality(OrphanReplies)
        /\ transferred_count + transferred_fuzzy_count + failed_count
              + unsupported_count = Len(old_annots)

\* C8: the output document is saved at most once, after both passes have
\* handled every annotation; before that no save is issued; a run whose
\* documents cannot be opened issues no save and creates no annotation.
C8_SaveLast ==
    /\ save_calls <= 1
    /\ save_calls = 1 <=> pc = "done"
    /\ output_file => save_calls = 1
    /\ save_calls = 1 =>
          (Len(outcomes) = Len(old_annots) /\ Len(visited2) = Len(old_annots))
    /\ pc \in {"start", "pass1", "pass2", "save", "aborted"} =>
          (save_calls = 0 /\ ~output_file)
    /\ pc = "aborted" => (output_annots = <<>> /\ outcomes = <<>> /\ visited2 = <<>>)

\* the file was written after two passes that created a markup and its reply
C8_Witness ==
    /\ pc = "done"
    /\ output_file
    /\ save_calls = 1
    /\ Len(output_annots) = 2
    /\ Len(old_annots) = 2

\* C10: with the shipped page limits a match of a global tier (2 or 4) lies
\* outside the local window, more than 5 pages away, and pass 1 rejects it;
\* every transfer accepted lands within 5 pages and comes from tier 1 or 3; a
\* phrase found exactly only outside the window is a failure even when a fuzzy
\* match inside the window would be acceptable.
C10_GlobalTiersRejected ==
    JustSearched =>
        /\ located.tier \in {2, 4} =>
              /\ located.page \notin WindowPages(Last.page)
              /\ LastDistance > MAX_PAGE_DISTANCE
              /\ LastOutcome = "too far"
              /\ CreatedFor(Last.xref) = {}
        /\ LastOutcome \in {"exact", "fuzzy"} =>
              /\ LastDistance <= MAX_PAGE_DISTANCE
              /\ located.tier \in {1, 3}
              /\ located.page \in WindowPages(Last.page)
        /\ (ExactPages(LastPhrase) # {}
            /\ ExactPages(LastPhrase) \cap WindowPages(Last.page) = {}) =>
              /\ located.tier = 2
              /\ LastOutcome = "too far"
              /\ LastFailureListed("too far")

\* an exact match outside the window was rejected although a page of the
\* window holds a fuzzy match within the allowance
C10_Witness ==
    /\ JustSearched
    /\ located.tier = 2
    /\ LastOutcome = "too far"
    /\ FuzzyWindowOn(LastPhrase, WindowPages(Last.page))

====
